---- MODULE Spec2Model ----
\* Tank movement pipeline of the tanks_war demo: the keyboard recorders, the
\* hull and turret integrators and the screen wrap, run by an ordered
\* per-frame schedule (src/demo/tank_movement.rs, src/demo/player.rs).
\*
\* Numbers.  Positions are whole world units; on whole numbers below 2^24 the
\* f32 additions, subtractions and remainders of the source are exact, so the
\* integer arithmetic below is the source's arithmetic on those inputs.
\* Orientation is the angle about z in whole degrees modulo 360 (the source
\* keeps a quaternion; composing rotations about z adds their angles).
\* time.delta_secs() is counted in half seconds, so that with the source's
\* rotation speed of 180 degrees per second every heading is a multiple of
\* 90 degrees and the forward direction is an axis.
EXTENDS Integers, FiniteSets, Sequences, TLC

VARIABLES
  world,     \* the ECS components: tank, turret (controllers), transform
  input,     \* ButtonInput<KeyCode>: the set of keys held in this frame
  dt,        \* Time: delta of this frame, in half seconds
  window,    \* the primary window's size <<w, h>>, or NoWindow
  paused,    \* the pause state that gates PausableSystems
  pc,        \* position in the frame's schedule; 0 between frames
  frame,     \* number of frames begun
  start,     \* history: world when the current frame began
  before,    \* history: world before the system that ran last
  world_b,   \* companion run in which no turret key is ever held
  world_c,   \* companion run in which no hull key is ever held
  writes,    \* history: per entity, the systems that changed its Transform
             \* in the current frame, in order
  origin     \* history: world in the initial state

vars == <<world, input, dt, window, paused, pc, frame, start, before,
          world_b, world_c, writes, origin>>

----------------------------------------------------------------------------
\* Bounds of the model.

\* Frames the model runs.
MaxFrames == 2

\* Largest delta of one frame, in half seconds.
MaxDt == 2

\* Largest coordinate the wrapper is applied to in WrapSpec.
MaxPos == 900

----------------------------------------------------------------------------
\* Constants of the program.

\* tank_movement.rs: max_speed: 400.0 (world units per second).
DefaultMaxSpeed == 400

\* f32::to_radians(180.0): rotation speed in degrees per second.
DefaultRotationSpeed == 180

\* The initial heading of hull and turret, f32::to_radians(90.0), in degrees.
SpawnRotation == 90

\* apply_screen_wrap: window.size() + 256.0.
WrapMargin == 256

NoWindow == <<>>

\* Sizes the primary window takes in the model (even, so that half the
\* domain is a whole number): domains of 400 x 300 and of 800 x 600.
WindowSizes == {<<144, 44>>, <<544, 344>>}

Keys == {"KeyW", "KeyS", "KeyA", "KeyD", "ArrowLeft", "ArrowRight"}

\* The entities the demo spawns: the player's hull and its turret child.
Entities == {"Player", "Turret"}

----------------------------------------------------------------------------
\* Components at spawn.

\* impl Default for TankMovementController.
TankMovementControllerDefault ==
  [forward_intent |-> 0, rotation_intent |-> 0,
   max_speed |-> DefaultMaxSpeed, rotation_speed |-> DefaultRotationSpeed]

\* impl Default for TurretController.
TurretControllerDefault ==
  [rotation_intent |-> 0, rotation_speed |-> DefaultRotationSpeed]

\* Transform::from_scale(..).with_rotation(Quat::from_rotation_z(90 deg)):
\* translation zero, heading 90 degrees.
SpawnTransform == [translation |-> <<0, 0, 0>>, rotation |-> SpawnRotation]

\* fn player: the hull carries TankMovementController and ScreenWrap.
player(max_speed) ==
  [tank |-> [TankMovementControllerDefault EXCEPT !.max_speed = max_speed],
   transform |-> SpawnTransform]

\* fn turret: the child carries TurretController and no ScreenWrap.
turret == [turret |-> TurretControllerDefault, transform |-> SpawnTransform]

\* Entities carrying the ScreenWrap marker (player.rs: fn player).
ScreenWrap == {"Player"}

\* The world after spawning: component tables keyed by entity.
SpawnWorld ==
  [tank      |-> [e \in {"Player"} |-> player(DefaultMaxSpeed).tank],
   turret    |-> [e \in {"Turret"} |-> turret.turret],
   transform |-> [e \in Entities |->
                    IF e = "Player" THEN player(DefaultMaxSpeed).transform
                    ELSE turret.transform]]

----------------------------------------------------------------------------
\* Arithmetic of the source.

\* Faulty variant of TimesDeltaSecs: a fixed step of half a second is used
\* whatever the delta of the frame.
TimesDeltaSecs_fixed_step(x, d) == x \div 2

\* x * time.delta_secs(), with the delta d counted in half seconds.
TimesDeltaSecs(x, d) == (x * d) \div 2

\* Faulty variant of rem_euclid: the truncated remainder of `%`, which keeps the sign
\* of the dividend.
rem_truncated(a, n) == IF a >= 0 THEN a % n ELSE -((-a) % n)

\* f32::rem_euclid for a positive modulus: the non-negative remainder.
rem_euclid(a, n) == a % n

\* The angle of a rotation about z, in [0, 360).
NormAngle(a) == a % 360

\* Transform::rotate_z: compose a rotation about z with the current one.
rotate_z(t, delta) == [t EXCEPT !.rotation = NormAngle(@ + delta)]

\* transform.rotation * Vec3::X for a heading that is a multiple of 90.
RotateX(rotation) ==
  CASE rotation = 0   -> <<1, 0, 0>>
    [] rotation = 90  -> <<0, 1, 0>>
    [] rotation = 180 -> <<-1, 0, 0>>
    [] rotation = 270 -> <<0, -1, 0>>

\* Vec3 * f32 and Vec3 + Vec3.
Scale(v, k) == <<v[1] * k, v[2] * k, v[3] * k>>
Add(u, v) == <<u[1] + v[1], u[2] + v[2], u[3] + v[3]>>

----------------------------------------------------------------------------
\* Systems.

\* +1.0 if the key is held.
Held(keys, k) == IF k \in keys THEN 1 ELSE 0

\* Faulty variant of record_tank_input: the second key of a pair is looked at only
\* when the first is not held (else-if), so opposite keys do not cancel.
record_tank_input_else_if(keys, tank) ==
  LET forward_intent  == IF "KeyW" \in keys THEN 1 ELSE -Held(keys, "KeyS")
      rotation_intent == IF "KeyA" \in keys THEN 1 ELSE -Held(keys, "KeyD")
  IN  [e \in DOMAIN tank |->
         [tank[e] EXCEPT !.forward_intent = forward_intent,
                         !.rotation_intent = rotation_intent]]

\* record_tank_input: W/S give forward_intent, A/D give rotation_intent,
\* written to every TankMovementController.
record_tank_input(keys, tank) ==
  LET forward_intent  == Held(keys, "KeyW") - Held(keys, "KeyS")
      rotation_intent == Held(keys, "KeyA") - Held(keys, "KeyD")
  IN  [e \in DOMAIN tank |->
         [tank[e] EXCEPT !.forward_intent = forward_intent,
                         !.rotation_intent = rotation_intent]]

\* Faulty variant of record_turret_input: the keys are added to the intent the
\* controller already holds instead of to 0.0.
record_turret_input_accumulate(keys, tur) ==
  [e \in DOMAIN tur |->
     [tur[e] EXCEPT !.rotation_intent =
        @ + Held(keys, "ArrowLeft") - Held(keys, "ArrowRight")]]

\* Faulty variant of record_turret_input: the intent is written only when it is not
\* zero, so a released key leaves the old intent in place.
record_turret_input_skip_zero(keys, tur) ==
  LET rotation_intent == Held(keys, "ArrowLeft") - Held(keys, "ArrowRight")
  IN  [e \in DOMAIN tur |->
         IF rotation_intent # 0
         THEN [tur[e] EXCEPT !.rotation_intent = rotation_intent]
         ELSE tur[e]]

\* record_turret_input: the arrow keys give the turret's rotation_intent,
\* written to every TurretController.
record_turret_input(keys, tur) ==
  LET rotation_intent == Held(keys, "ArrowLeft") - Held(keys, "ArrowRight")
  IN  [e \in DOMAIN tur |-> [tur[e] EXCEPT !.rotation_intent = rotation_intent]]

\* Faulty variant of TankMove: the translation uses the heading before the rotation
\* of this frame.
TankMove_translate_first(controller, t, d) ==
  LET rotation_delta ==
        TimesDeltaSecs(controller.rotation_intent * controller.rotation_speed, d)
      forward_direction == RotateX(t.rotation)
      movement_distance ==
        TimesDeltaSecs(controller.forward_intent * controller.max_speed, d)
      moved == IF controller.forward_intent # 0
               THEN [t EXCEPT !.translation =
                       Add(@, Scale(forward_direction, movement_distance))]
               ELSE t
  IN  rotate_z(moved, rotation_delta)

\* Faulty variant of TankMove: the distance is taken from the magnitude of
\* forward_intent, so the hull drives forward under either sign.
TankMove_always_forward(controller, t, d) ==
  LET rotation_delta ==
        TimesDeltaSecs(controller.rotation_intent * controller.rotation_speed, d)
      rotated == rotate_z(t, rotation_delta)
      forward_direction == RotateX(rotated.rotation)
      movement_distance ==
        TimesDeltaSecs(controller.forward_intent * controller.forward_intent
                         * controller.max_speed, d)
      translation_delta == Scale(forward_direction, movement_distance)
  IN  IF controller.forward_intent # 0
      THEN [rotated EXCEPT !.translation = Add(@, translation_delta)]
      ELSE rotated

\* Faulty variant of TankMove: the distance is forward_intent * max_speed,
\* not multiplied by the delta.
TankMove_distance_per_frame(controller, t, d) ==
  LET rotation_delta ==
        TimesDeltaSecs(controller.rotation_intent * controller.rotation_speed, d)
      rotated == rotate_z(t, rotation_delta)
      forward_direction == RotateX(rotated.rotation)
      movement_distance == controller.forward_intent * controller.max_speed
      translation_delta == Scale(forward_direction, movement_distance)
  IN  IF controller.forward_intent # 0
      THEN [rotated EXCEPT !.translation = Add(@, translation_delta)]
      ELSE rotated

\* The body of apply_tank_movement's loop for one entity: rotate, then move
\* along the rotated heading when forward_intent is not zero.
TankMove(controller, t, d) ==
  LET rotation_delta ==
        TimesDeltaSecs(controller.rotation_intent * controller.rotation_speed, d)
      rotated == rotate_z(t, rotation_delta)
      forward_direction == RotateX(rotated.rotation)
      movement_distance ==
        TimesDeltaSecs(controller.forward_intent * controller.max_speed, d)
      translation_delta == Scale(forward_direction, movement_distance)
  IN  IF controller.forward_intent # 0
      THEN [rotated EXCEPT !.translation = Add(@, translation_delta)]
      ELSE rotated

\* apply_tank_movement: every entity with TankMovementController and Transform.
apply_tank_movement(d, tank, transform) ==
  [e \in DOMAIN transform |->
     IF e \in DOMAIN tank THEN TankMove(tank[e], transform[e], d)
     ELSE transform[e]]

\* Faulty variant of TurretMove: the intent is left out of the product.
TurretMove_no_intent(controller, t, d) ==
  rotate_z(t, TimesDeltaSecs(controller.rotation_speed, d))

\* Faulty variant of TurretMove: the loop body is the hull's, and moves the
\* turret along its heading by the angle it turned.
TurretMove_with_translation(controller, t, d) ==
  LET rotation_delta ==
        TimesDeltaSecs(controller.rotation_intent * controller.rotation_speed, d)
      rotated == rotate_z(t, rotation_delta)
  IN  [rotated EXCEPT !.translation =
         Add(@, Scale(RotateX(rotated.rotation), rotation_delta))]

\* The body of apply_turret_movement's loop for one entity.
TurretMove(controller, t, d) ==
  rotate_z(t, TimesDeltaSecs(controller.rotation_intent * controller.rotation_speed, d))

\* Faulty variant of apply_turret_movement: the turret's rotation is applied to
\* every Transform, the hull's included.
apply_turret_movement_every_transform(d, tur, transform) ==
  [e \in DOMAIN transform |->
     TurretMove(tur[CHOOSE c \in DOMAIN tur : TRUE], transform[e], d)]

\* apply_turret_movement: every entity with TurretController and Transform.
apply_turret_movement(d, tur, transform) ==
  [e \in DOMAIN transform |->
     IF e \in DOMAIN tur THEN TurretMove(tur[e], transform[e], d)
     ELSE transform[e]]

\* window.size() + 256.0.
WrapSize(win) == <<win[1] + WrapMargin, win[2] + WrapMargin>>

\* Faulty variant of WrapAxis: the domain is not centred, positions wrap into [0, size).
WrapAxis_not_centred(p, size) == rem_euclid(p, size)

\* (position + half_size).rem_euclid(size) - half_size on one axis.
WrapAxis(p, size) ==
  LET half_size == size \div 2
  IN  rem_euclid(p + half_size, size) - half_size

\* Faulty variant of WrapTransform: x is wrapped by the height and y by the
\* width.
WrapTransform_swapped_sizes(t, size) ==
  [t EXCEPT !.translation =
     <<WrapAxis(@[1], size[2]), WrapAxis(@[2], size[1]), @[3]>>]

\* Faulty variant of WrapTransform: the Transform is built anew from the
\* wrapped translation, with the identity rotation.
WrapTransform_from_translation(t, size) ==
  [translation |-> <<WrapAxis(t.translation[1], size[1]),
                     WrapAxis(t.translation[2], size[2]), t.translation[3]>>,
   rotation    |-> 0]

\* The body of apply_screen_wrap's loop: x and y wrapped, z kept.
WrapTransform(t, size) ==
  [t EXCEPT !.translation =
     <<WrapAxis(@[1], size[1]), WrapAxis(@[2], size[2]), @[3]>>]

\* The entities apply_screen_wrap's query matches: Transform With<ScreenWrap>.
WrapQuery(transform) == DOMAIN transform \cap ScreenWrap

\* Faulty variant of apply_screen_wrap: without a primary window the size of an
\* empty window is used.
apply_screen_wrap_default_window(win, transform) ==
  LET size == IF win # NoWindow THEN WrapSize(win) ELSE WrapSize(<<0, 0>>)
  IN  [e \in DOMAIN transform |->
         IF e \in WrapQuery(transform) THEN WrapTransform(transform[e], size)
         ELSE transform[e]]

\* apply_screen_wrap: nothing without a primary window.
apply_screen_wrap(win, transform) ==
  IF win # NoWindow
  THEN LET size == WrapSize(win)
       IN  [e \in DOMAIN transform |->
              IF e \in WrapQuery(transform) THEN WrapTransform(transform[e], size)
              ELSE transform[e]]
  ELSE transform

----------------------------------------------------------------------------
\* The schedule of one frame.

\* Faulty variant of RecordInputSet: the turret integrator is chained ahead of
\* the recorders.
RecordInputSet_integrate_first ==
  <<"apply_turret_movement", "record_tank_input", "record_turret_input">>

\* player.rs plugin: (record_tank_input, record_turret_input,
\* apply_turret_movement).chain() in AppSystems::RecordInput.
RecordInputSet ==
  <<"record_tank_input", "record_turret_input", "apply_turret_movement">>

\* Faulty variant of UpdateSet: the wrapper is chained ahead of the hull
\* integrator.
UpdateSet_wrap_first == <<"apply_screen_wrap", "apply_tank_movement">>

\* tank_movement.rs plugin: (apply_tank_movement, apply_screen_wrap).chain()
\* in AppSystems::Update.
UpdateSet == <<"apply_tank_movement", "apply_screen_wrap">>

\* The order of the system sets within Update: RecordInput, then Update.
Schedule == RecordInputSet \o UpdateSet

\* Faulty variant of PausableSystems: tank_movement.rs adds its systems without
\* .in_set(PausableSystems).
PausableSystems_player_only ==
  {"record_tank_input", "record_turret_input", "apply_turret_movement"}

\* Both plugins add their systems .in_set(PausableSystems).
PausableSystems ==
  {"record_tank_input", "record_turret_input", "apply_turret_movement",
   "apply_tank_movement", "apply_screen_wrap"}

\* The run condition of PausableSystems: not while paused.
RunIf(system, isPaused) == ~(system \in PausableSystems /\ isPaused)

\* The world after one system has run on it.
RunSystem(system, w, keys, d, win) ==
  CASE system = "record_tank_input" ->
         [w EXCEPT !.tank = record_tank_input(keys, @)]
    [] system = "record_turret_input" ->
         [w EXCEPT !.turret = record_turret_input(keys, @)]
    [] system = "apply_turret_movement" ->
         [w EXCEPT !.transform = apply_turret_movement(d, w.turret, @)]
    [] system = "apply_tank_movement" ->
         [w EXCEPT !.transform = apply_tank_movement(d, w.tank, @)]
    [] system = "apply_screen_wrap" ->
         [w EXCEPT !.transform = apply_screen_wrap(win, @)]

----------------------------------------------------------------------------
\* The state machine.
\*
\* Beside the run (world) the model carries two companion runs that get the
\* same delta, window and pause state and the same keys, except that world_b
\* never has a turret key held and world_c never has a hull key held.

HullKeys == {"KeyW", "KeyS", "KeyA", "KeyD"}
TurretKeys == {"ArrowLeft", "ArrowRight"}

\* No system has changed a Transform yet.
NoWrites == [e \in Entities |-> <<>>]

\* The writes of a frame after a system took w to w2.
Written(system, w, w2, ws) ==
  [e \in Entities |->
     IF w2.transform[e] # w.transform[e] THEN Append(ws[e], system) ELSE ws[e]]

Init ==
  /\ world = SpawnWorld
  /\ input = {}
  /\ dt = 0
  /\ window = NoWindow
  /\ paused = FALSE
  /\ pc = 0
  /\ frame = 0
  /\ start = SpawnWorld
  /\ before = SpawnWorld
  /\ world_b = SpawnWorld
  /\ world_c = SpawnWorld
  /\ writes = NoWrites
  /\ origin = SpawnWorld

\* The frame loop begins a frame: keys, time, window and pause state are
\* sampled before the schedule runs.
FrameBegin ==
  /\ pc = 0
  /\ frame < MaxFrames
  /\ input' \in SUBSET Keys
  /\ dt' \in 0..MaxDt
  /\ window' \in WindowSizes \cup {NoWindow}
  /\ paused' \in BOOLEAN
  /\ pc' = 1
  /\ frame' = frame + 1
  /\ start' = world
  /\ before' = world
  /\ writes' = NoWrites
  /\ UNCHANGED <<world, world_b, world_c, origin>>

\* What one position of the schedule does to a world under the keys held.
RunAt(i, w, keys) ==
  IF RunIf(Schedule[i], paused)
  THEN RunSystem(Schedule[i], w, keys, dt, window)
  ELSE w

\* One system of the schedule runs, or is skipped by its run condition.
Step(system) ==
  /\ pc \in 1..Len(Schedule)
  /\ Schedule[pc] = system
  /\ before' = world
  /\ world' = RunAt(pc, world, input)
  /\ world_b' = RunAt(pc, world_b, input \ TurretKeys)
  /\ world_c' = RunAt(pc, world_c, input \ HullKeys)
  /\ writes' = Written(system, world, world', writes)
  /\ pc' = IF pc = Len(Schedule) THEN 0 ELSE pc + 1
  /\ UNCHANGED <<input, dt, window, paused, frame, start, origin>>

RecordTankInput == Step("record_tank_input")
RecordTurretInput == Step("record_turret_input")
ApplyTurretMovement == Step("apply_turret_movement")
ApplyTankMovement == Step("apply_tank_movement")
ApplyScreenWrap == Step("apply_screen_wrap")

Next ==
  \/ FrameBegin
  \/ RecordTankInput
  \/ RecordTurretInput
  \/ ApplyTurretMovement
  \/ ApplyTankMovement
  \/ ApplyScreenWrap

Spec == Init /\ [][Next]_vars

----------------------------------------------------------------------------
\* One frame from the integrators on, from any pose: the hull stands at p on
\* one axis, heads along an axis and carries the intent its recorder wrote
\* for the keys held; a slow tank (max_speed 20) moves 10 units in a half
\* second.

SlowMaxSpeed == 20

\* The keys that give a forward intent.
ForwardKeys(fi) == CASE fi = 1 -> {"KeyW"} [] fi = -1 -> {"KeyS"} [] fi = 0 -> {}

\* The world with the hull at pose (translation, rotation), recorded from keys.
PosedWorld(translation, rotation, max_speed, keys) ==
  LET w == [SpawnWorld EXCEPT
              !.tank["Player"].max_speed = max_speed,
              !.transform["Player"].translation = translation,
              !.transform["Player"].rotation = rotation]
  IN  [w EXCEPT !.tank = record_tank_input(keys, @)]

InitWrap ==
  /\ \E p \in -MaxPos..MaxPos, axis \in {1, 2}, rot \in {0, 90},
        fi \in {-1, 0, 1} :
       /\ input = ForwardKeys(fi)
       /\ world = PosedWorld(IF axis = 1 THEN <<p, 0, 0>> ELSE <<0, p, 0>>,
                             rot, SlowMaxSpeed, input)
  /\ dt \in 0..1
  /\ window \in WindowSizes
  /\ paused = FALSE
  /\ pc = 4
  /\ frame = 1
  /\ start = world
  /\ before = world
  /\ world_b = world
  /\ world_c = world
  /\ writes = NoWrites
  /\ origin = world

NextWrap == ApplyTankMovement \/ ApplyScreenWrap

WrapSpec == InitWrap /\ [][NextWrap]_vars

----------------------------------------------------------------------------
\* Two frames with the same delta and window, forward held in the first and
\* backward in the second, from any pose of the hull inside the domain of the
\* window, heading along an axis, with the default or the slow max_speed.

InitTrip ==
  /\ window \in WindowSizes
  /\ \E p \in -MaxPos..MaxPos, axis \in {1, 2}, rot \in {0, 90, 180, 270},
        max_speed \in {DefaultMaxSpeed, SlowMaxSpeed} :
       /\ -((window[axis] + WrapMargin) \div 2) <= p
       /\ p < (window[axis] + WrapMargin) \div 2
       /\ world = PosedWorld(IF axis = 1 THEN <<p, 0, 0>> ELSE <<0, p, 0>>,
                             rot, max_speed, {})
  /\ input = {}
  /\ dt \in 0..MaxDt
  /\ paused = FALSE
  /\ pc = 0
  /\ frame = 0
  /\ start = world
  /\ before = world
  /\ world_b = world
  /\ world_c = world
  /\ writes = NoWrites
  /\ origin = world

\* The frame loop starts the next of the two frames.
TripBegin ==
  /\ pc = 0
  /\ frame < 2
  /\ frame' = frame + 1
  /\ input' = ForwardKeys(IF frame = 0 THEN 1 ELSE -1)
  /\ pc' = 1
  /\ start' = world
  /\ before' = world
  /\ writes' = NoWrites
  /\ UNCHANGED <<world, world_b, world_c, origin, dt, window, paused>>

NextTrip ==
  \/ TripBegin
  \/ RecordTankInput
  \/ RecordTurretInput
  \/ ApplyTurretMovement
  \/ ApplyTankMovement
  \/ ApplyScreenWrap

TripSpec == InitTrip /\ [][NextTrip]_vars

----------------------------------------------------------------------------
\* Vocabulary of the properties.

\* The place of a system in the schedule.
PlaceOf(system) == CHOOSE i \in 1..Len(Schedule) : Schedule[i] = system

\* The schedule of the current frame is complete.
FrameDone == frame > 0 /\ pc = 0

\* The system was due in the current frame and its turn is over.
Passed(system) == frame > 0 /\ (pc = 0 \/ pc > PlaceOf(system))

\* The system's turn was the last step taken (before is the world it met).
JustPassed(system) ==
  /\ frame > 0
  /\ pc = (IF PlaceOf(system) = Len(Schedule) THEN 0 ELSE PlaceOf(system) + 1)

Hull(w) == w.transform["Player"]
Gun(w) == w.transform["Turret"]
HullCtl(w) == w.tank["Player"]
GunCtl(w) == w.turret["Turret"]

\* The wrap domain of a window on axis i: viewport size plus the margin.
DomainSize(win, i) == win[i] + 256

\* pos lies in [-S/2, S/2) on both axes for the window's S.
InDomain(pos, win) ==
  \A i \in {1, 2} :
    /\ -(DomainSize(win, i) \div 2) <= pos[i]
    /\ pos[i] < DomainSize(win, i) \div 2

\* pos and other differ by a whole multiple of S on both axes.
SameModDomain(pos, other, win) ==
  \A i \in {1, 2} : (pos[i] - other[i]) % DomainSize(win, i) = 0

Abs(x) == IF x < 0 THEN -x ELSE x

\* (+1 if plus is held) + (-1 if minus is held).
IntentOf(keys, plus, minus) ==
  (IF plus \in keys THEN 1 ELSE 0) + (IF minus \in keys THEN -1 ELSE 0)

\* The unit vector at a heading that is a multiple of 90 degrees.
UnitAt(angle) ==
  CASE angle % 360 = 0   -> <<1, 0>>
    [] angle % 360 = 90  -> <<0, 1>>
    [] angle % 360 = 180 -> <<-1, 0>>
    [] angle % 360 = 270 -> <<0, -1>>

----------------------------------------------------------------------------
\* C1: at the end of every unpaused frame in which a window is available,
\* every entity with the ScreenWrap marker has x and y in [-S/2, S/2) for that
\* frame's S = window size + 256, however far the frame moved it.
C1_WrappedInsideDomain ==
  (FrameDone /\ ~paused /\ window # NoWindow) =>
    \A e \in ScreenWrap : InDomain(world.transform[e].translation, window)

\* C1 witness: a frame that moved the hull by more than a whole domain width
\* on some axis before the wrap brought it back.
C1_Witness ==
  /\ FrameDone /\ ~paused /\ window # NoWindow
  /\ \E i \in {1, 2} :
       Abs(Hull(before).translation[i] - Hull(start).translation[i])
         > DomainSize(window, i)
  /\ Hull(world).translation # Hull(before).translation

\* C2: the wrapper maps a coordinate p to ((p + S/2) mod S) - S/2 with the
\* non-negative remainder: with S = 800, 405 moved on by +10 ends at -385 and
\* -415 wraps to 385, and the result differs from p by a whole multiple of S.
C2_WrapFormula ==
  (JustPassed("apply_screen_wrap") /\ ~paused /\ window # NoWindow) =>
    \A i \in {1, 2} :
      LET S == DomainSize(window, i)
          p == Hull(before).translation[i]
          r == Hull(world).translation[i]
      IN  /\ r = ((p + S \div 2) % S) - S \div 2
          /\ 0 <= r + S \div 2 /\ r + S \div 2 < S
          /\ (r - p) % S = 0
          /\ (S = 800 /\ p = 415) => r = -385
          /\ (S = 800 /\ p = -415) => r = 385
          /\ (S = 800 /\ Hull(start).translation[i] = 405 /\ p = 415) => r = -385

\* C2 witness: S = 800 on the x axis, the hull at 405 moved on by 10 and
\* was wrapped to -385.
C2_Witness ==
  /\ JustPassed("apply_screen_wrap") /\ ~paused
  /\ window # NoWindow /\ DomainSize(window, 1) = 800
  /\ Hull(start).translation[1] = 405
  /\ Hull(before).translation[1] = 415
  /\ Hull(world).translation[1] = -385

\* C3: once a recorder has run in an unpaused frame, the intents it writes
\* are (+1 if the positive key is held) + (-1 if the negative key is held),
\* for every combination of keys; opposite keys held together give 0.
C3_RecordedIntents ==
  /\ (Passed("record_tank_input") /\ ~paused) =>
       /\ HullCtl(world).forward_intent = IntentOf(input, "KeyW", "KeyS")
       /\ HullCtl(world).rotation_intent = IntentOf(input, "KeyA", "KeyD")
       /\ {"KeyW", "KeyS"} \subseteq input => HullCtl(world).forward_intent = 0
       /\ {"KeyA", "KeyD"} \subseteq input => HullCtl(world).rotation_intent = 0
  /\ (Passed("record_turret_input") /\ ~paused) =>
       /\ GunCtl(world).rotation_intent = IntentOf(input, "ArrowLeft", "ArrowRight")
       /\ {"ArrowLeft", "ArrowRight"} \subseteq input =>
            GunCtl(world).rotation_intent = 0

\* C3 witness: every key is held, the intents of the frame before were not
\* zero, and both recorders have written zero.
C3_Witness ==
  /\ Passed("record_tank_input") /\ Passed("record_turret_input") /\ ~paused
  /\ input = Keys
  /\ HullCtl(start).forward_intent # 0
  /\ HullCtl(start).rotation_intent # 0
  /\ GunCtl(start).rotation_intent # 0
  /\ HullCtl(world).forward_intent = 0
  /\ HullCtl(world).rotation_intent = 0
  /\ GunCtl(world).rotation_intent = 0

\* C4: in every reachable state every intent of hull and turret is one of
\* -1, 0, 1.
C4_IntentsInRange ==
  /\ \A e \in DOMAIN world.tank :
       /\ world.tank[e].forward_intent \in {-1, 0, 1}
       /\ world.tank[e].rotation_intent \in {-1, 0, 1}
  /\ \A e \in DOMAIN world.turret :
       world.turret[e].rotation_intent \in {-1, 0, 1}

\* C4 witness: after an unpaused and then a paused frame the intents are at
\* both ends of the range.
C4_Witness ==
  /\ FrameDone /\ frame = 2 /\ paused
  /\ HullCtl(world).forward_intent = -1
  /\ HullCtl(world).rotation_intent = 1
  /\ GunCtl(world).rotation_intent = -1

\* C5: after the recorders of an unpaused frame the intents do not depend on
\* what they were before: they are what the recorders write into a freshly
\* spawned controller under the same keys, and with no key held all are 0.
C5_IntentsOverwritten ==
  (Passed("record_tank_input") /\ Passed("record_turret_input") /\ ~paused) =>
    /\ HullCtl(world).forward_intent =
         record_tank_input(input, SpawnWorld.tank)["Player"].forward_intent
    /\ HullCtl(world).rotation_intent =
         record_tank_input(input, SpawnWorld.tank)["Player"].rotation_intent
    /\ GunCtl(world).rotation_intent =
         record_turret_input(input, SpawnWorld.turret)["Turret"].rotation_intent
    /\ input = {} =>
         /\ HullCtl(world).forward_intent = 0
         /\ HullCtl(world).rotation_intent = 0
         /\ GunCtl(world).rotation_intent = 0

\* C5 witness: no key is held in this frame, every intent was nonzero when
\* the frame began and is zero after the recorders.
C5_Witness ==
  /\ Passed("record_tank_input") /\ Passed("record_turret_input") /\ ~paused
  /\ input = {}
  /\ HullCtl(start).forward_intent # 0
  /\ HullCtl(start).rotation_intent # 0
  /\ GunCtl(start).rotation_intent # 0
  /\ HullCtl(world).forward_intent = 0
  /\ HullCtl(world).rotation_intent = 0
  /\ GunCtl(world).rotation_intent = 0

\* C6 as stated: a frame in which no key is held leaves the position and the
\* orientation of every entity unchanged.
C6_AsStated ==
  (FrameDone /\ input = {}) =>
    \A e \in DOMAIN world.transform :
      /\ world.transform[e].translation = start.transform[e].translation
      /\ world.transform[e].rotation = start.transform[e].rotation

\* The wrapper relocates the entity in this frame: the frame is not paused, a
\* window is available, the entity is marked and began the frame outside the
\* domain.
Relocated(e) ==
  /\ ~paused /\ window # NoWindow /\ e \in ScreenWrap
  /\ ~InDomain(start.transform[e].translation, window)

\* C6 amended: a frame in which no key is held leaves every orientation
\* unchanged and leaves every position unchanged, except that a marked entity
\* that began the frame outside the domain of the frame's window is moved by
\* whole multiples of S into the domain.
C6_IdleFrame ==
  (FrameDone /\ input = {}) =>
    \A e \in DOMAIN world.transform :
      /\ world.transform[e].rotation = start.transform[e].rotation
      /\ world.transform[e].translation[3] = start.transform[e].translation[3]
      /\ IF Relocated(e)
         THEN /\ InDomain(world.transform[e].translation, window)
              /\ SameModDomain(world.transform[e].translation,
                               start.transform[e].translation, window)
         ELSE world.transform[e].translation = start.transform[e].translation

\* C6 witness: an unpaused frame with time passing and a window, no key held,
\* that began with the hull away from its spawn pose and inside the domain,
\* and with every intent nonzero.
C6_Witness ==
  /\ FrameDone /\ input = {} /\ ~paused /\ dt > 0 /\ window # NoWindow
  /\ InDomain(Hull(start).translation, window)
  /\ Hull(start).translation # <<0, 0, 0>>
  /\ Hull(start).rotation # SpawnRotation
  /\ Gun(start).rotation # SpawnRotation
  /\ HullCtl(start).forward_intent # 0
  /\ HullCtl(start).rotation_intent # 0
  /\ GunCtl(start).rotation_intent # 0
  /\ world.transform = start.transform

\* C7: two runs that get the same delta, window, pause state and hull keys
\* and differ in the turret keys have the same hull position and orientation
\* at every step, and two runs that differ only in the hull keys have the
\* same turret orientation.  Every run is compared with its companion in
\* which the other group of keys is never held; two runs that agree on a
\* group of keys share that companion.
C7_Independence ==
  /\ Hull(world) = Hull(world_b)
  /\ Gun(world).rotation = Gun(world_c).rotation

\* C7 witness: after two frames the turret has turned in the run and not in
\* the companion without turret keys, and the hull has moved and turned in
\* the run and not in the companion without hull keys.
C7_Witness ==
  /\ FrameDone /\ frame = 2
  /\ Gun(world).rotation # Gun(world_b).rotation
  /\ GunCtl(world).rotation_intent # GunCtl(world_b).rotation_intent
  /\ Hull(world).translation # Hull(world_c).translation
  /\ Hull(world).rotation # Hull(world_c).rotation
  /\ Gun(world).rotation # SpawnRotation

\* C8: the hull integrator rotates first and translates second: the
\* displacement of the frame is distance along the heading after the
\* rotation of the same frame; after a quarter turn that is the heading
\* before the frame turned by 90 degrees, not the heading before the frame.
C8_RotateThenTranslate ==
  (JustPassed("apply_tank_movement") /\ ~paused) =>
    LET c == HullCtl(world)
        old == Hull(before)
        new == Hull(world)
        distance == (c.forward_intent * c.max_speed * dt) \div 2
        turn == (c.rotation_intent * c.rotation_speed * dt) \div 2
        moved == <<new.translation[1] - old.translation[1],
                   new.translation[2] - old.translation[2]>>
        along(angle) == <<UnitAt(angle)[1] * distance, UnitAt(angle)[2] * distance>>
    IN  /\ new.rotation = (old.rotation + turn) % 360
        /\ moved = along(new.rotation)
        /\ (c.rotation_intent # 0 /\ c.forward_intent # 0 /\ dt = 1) =>
             /\ moved = along(old.rotation + 90 * c.rotation_intent)
             /\ moved # along(old.rotation)

\* C8 witness: a frame with both intents nonzero and a delta that makes a
\* quarter turn, after the hull integrator.
C8_Witness ==
  /\ JustPassed("apply_tank_movement") /\ ~paused
  /\ HullCtl(world).rotation_intent # 0
  /\ HullCtl(world).forward_intent # 0
  /\ dt = 1
  /\ Hull(world).translation # Hull(before).translation
  /\ Hull(world).rotation # Hull(before).rotation

\* C9: while the pause state is active no recorder, integrator or wrapper
\* runs: intents, positions and orientations stay what they were when the
\* frame began, whatever keys, delta and window the frame has.
C9_PausedFrameSkipped ==
  (frame > 0 /\ paused) => world = start

\* C9 witness: a paused frame, complete, in which every system would have
\* changed something: keys held that give other intents, time passing, and
\* a window whose domain the hull is outside of.
C9_Witness ==
  /\ FrameDone /\ paused /\ dt > 0 /\ window # NoWindow
  /\ ~InDomain(Hull(world).translation, window)
  /\ HullCtl(world).forward_intent # IntentOf(input, "KeyW", "KeyS")
  /\ HullCtl(world).rotation_intent # IntentOf(input, "KeyA", "KeyD")
  /\ GunCtl(world).rotation_intent # IntentOf(input, "ArrowLeft", "ArrowRight")
  /\ IntentOf(input, "KeyW", "KeyS") # 0
  /\ IntentOf(input, "KeyA", "KeyD") # 0
  /\ IntentOf(input, "ArrowLeft", "ArrowRight") # 0

\* C10: without a primary window the wrapper changes nothing: every position
\* after the wrapper's turn is the position the integrators left.
C10_NoWindowNoWrap ==
  (JustPassed("apply_screen_wrap") /\ window = NoWindow) => world = before

\* C10 witness: an unpaused frame without a window that moved the hull, and
\* left it outside the domain of every window of the model.
C10_Witness ==
  /\ JustPassed("apply_screen_wrap") /\ ~paused /\ window = NoWindow
  /\ Hull(world).translation # Hull(start).translation
  /\ \A win \in WindowSizes : ~InDomain(Hull(world).translation, win)

\* C11 as stated: in every unpaused frame the turret integrator runs after
\* the hull integrator and after both recorders: once its turn is over, the
\* turns of the hull integrator and of both recorders are over too.
C11_AsStated ==
  (Passed("apply_turret_movement") /\ ~paused) =>
    /\ Passed("apply_tank_movement")
    /\ Passed("record_tank_input")
    /\ Passed("record_turret_input")

\* The displacement of the hull by the last step, in the plane.
Moved == <<Hull(world).translation[1] - Hull(before).translation[1],
           Hull(world).translation[2] - Hull(before).translation[2]>>

\* C12: in every unpaused frame the order is hull recorder, turret recorder,
\* integrators, wrapper, and each integrator moves its entity by the intents
\* of the keys held in this very frame: a key held for the first time
\* already counts, a key released no longer does.
C12_SameTickIntents ==
  /\ PlaceOf("record_tank_input") < PlaceOf("record_turret_input")
  /\ \A integrator \in {"apply_tank_movement", "apply_turret_movement"} :
       /\ PlaceOf("record_turret_input") < PlaceOf(integrator)
       /\ PlaceOf(integrator) < PlaceOf("apply_screen_wrap")
  /\ (JustPassed("apply_turret_movement") /\ ~paused) =>
       Gun(world).rotation =
         (Gun(before).rotation
            + (IntentOf(input, "ArrowLeft", "ArrowRight")
                 * GunCtl(world).rotation_speed * dt) \div 2) % 360
  /\ (JustPassed("apply_tank_movement") /\ ~paused) =>
       LET distance == (IntentOf(input, "KeyW", "KeyS")
                          * HullCtl(world).max_speed * dt) \div 2
       IN  /\ Hull(world).rotation =
                (Hull(before).rotation
                   + (IntentOf(input, "KeyA", "KeyD")
                        * HullCtl(world).rotation_speed * dt) \div 2) % 360
           /\ Moved = <<UnitAt(Hull(world).rotation)[1] * distance,
                        UnitAt(Hull(world).rotation)[2] * distance>>

\* C12 witness: the second frame, after the integrators: forward is held for
\* the first time and the hull has moved; the turn keys of hull and turret
\* were held in the frame before and are released, and neither has turned.
C12_Witness ==
  /\ JustPassed("apply_tank_movement") /\ ~paused /\ dt > 0 /\ frame = 2
  /\ HullCtl(start).forward_intent = 0
  /\ HullCtl(start).rotation_intent # 0
  /\ GunCtl(start).rotation_intent # 0
  /\ input = {"KeyW"}
  /\ Hull(world).translation # Hull(start).translation
  /\ Hull(world).rotation = Hull(start).rotation
  /\ Gun(world).rotation = Gun(start).rotation

\* rotation_intent * rotation_speed * dt for a controller, in degrees.
AngleDelta(c, d) == (c.rotation_intent * c.rotation_speed * d) \div 2

\* C13: the orientation change of a frame is rotation_intent *
\* rotation_speed * dt for hull and turret: it is zero when dt = 0, and an
\* integrator run with twice the delta turns by twice the angle, as much as
\* two runs with the delta.
C13_RotationLinearInDt ==
  (FrameDone /\ ~paused) =>
    /\ Hull(world).rotation =
         (Hull(start).rotation + AngleDelta(HullCtl(world), dt)) % 360
    /\ Gun(world).rotation =
         (Gun(start).rotation + AngleDelta(GunCtl(world), dt)) % 360
    /\ dt = 0 => /\ Hull(world).rotation = Hull(start).rotation
                 /\ Gun(world).rotation = Gun(start).rotation
    /\ TankMove(HullCtl(world), Hull(start), 2 * dt).rotation =
         (Hull(start).rotation + 2 * AngleDelta(HullCtl(world), dt)) % 360
    /\ TankMove(HullCtl(world), Hull(start), 2 * dt).rotation =
         TankMove(HullCtl(world), Hull(world), dt).rotation
    /\ TurretMove(GunCtl(world), Gun(start), 2 * dt).rotation =
         (Gun(start).rotation + 2 * AngleDelta(GunCtl(world), dt)) % 360
    /\ TurretMove(GunCtl(world), Gun(start), 2 * dt).rotation =
         TurretMove(GunCtl(world), Gun(world), dt).rotation

\* C13 witness: a frame of half a second in which hull and turret both turn,
\* in opposite senses, by a quarter turn each.
C13_Witness ==
  /\ FrameDone /\ ~paused /\ dt = 1
  /\ HullCtl(world).rotation_intent = 1
  /\ GunCtl(world).rotation_intent = -1
  /\ Hull(world).rotation = (Hull(start).rotation + 90) % 360
  /\ Gun(world).rotation = (Gun(start).rotation + 270) % 360

\* The smaller angle between two orientations, in degrees.
AngleBetween(a, b) ==
  IF (a - b) % 360 <= (b - a) % 360 THEN (a - b) % 360 ELSE (b - a) % 360

\* C14: in every frame the hull integrator translates by at most max_speed *
\* dt, and each integrator turns its entity by at most rotation_speed * dt.
C14_MotionWithinCaps ==
  /\ (JustPassed("apply_tank_movement") /\ ~paused) =>
       LET cap == (HullCtl(world).max_speed * dt) \div 2
       IN  /\ Moved[1] * Moved[1] + Moved[2] * Moved[2] <= cap * cap
           /\ AngleBetween(Hull(world).rotation, Hull(before).rotation)
                 <= (HullCtl(world).rotation_speed * dt) \div 2
  /\ (JustPassed("apply_turret_movement") /\ ~paused) =>
       AngleBetween(Gun(world).rotation, Gun(before).rotation)
         <= (GunCtl(world).rotation_speed * dt) \div 2

\* C14 witness: a frame of half a second at full throttle and full turn: the
\* hull has moved max_speed * dt and hull and turret have turned
\* rotation_speed * dt.
C14_Witness ==
  /\ JustPassed("apply_tank_movement") /\ ~paused /\ dt = 1
  /\ Abs(HullCtl(world).forward_intent) = 1
  /\ Abs(Moved[1]) + Abs(Moved[2]) = HullCtl(world).max_speed \div 2
  /\ AngleBetween(Hull(world).rotation, Hull(before).rotation) = 90
  /\ AngleBetween(Gun(world).rotation, Gun(start).rotation) = 90

\* C15: the turret integrator changes no position; the hull integrator
\* changes no position of an entity without a hull controller, and with
\* forward_intent = 0 it turns the hull and leaves its position unchanged.
C15_PositionOnlyByThrottle ==
  /\ (JustPassed("apply_turret_movement") /\ ~paused) =>
       \A e \in DOMAIN world.transform :
         world.transform[e].translation = before.transform[e].translation
  /\ (JustPassed("apply_tank_movement") /\ ~paused) =>
       \A e \in DOMAIN world.transform :
         (e \notin DOMAIN world.tank \/ world.tank[e].forward_intent = 0) =>
           /\ world.transform[e].translation = before.transform[e].translation
           /\ e \in DOMAIN world.tank =>
                world.transform[e].rotation =
                  (before.transform[e].rotation
                     + AngleDelta(world.tank[e], dt)) % 360

\* C15 witness: after both integrators of a frame with time passing, no
\* throttle and both turn intents nonzero: hull and turret have turned and
\* every position is the one the frame began with.
C15_Witness ==
  /\ JustPassed("apply_tank_movement") /\ ~paused /\ dt = 1
  /\ HullCtl(world).forward_intent = 0
  /\ HullCtl(world).rotation_intent # 0
  /\ GunCtl(world).rotation_intent # 0
  /\ Hull(world).rotation # Hull(start).rotation
  /\ Gun(world).rotation # Gun(start).rotation
  /\ Hull(start).translation # <<0, 0, 0>>
  /\ \A e \in DOMAIN world.transform :
       world.transform[e].translation = start.transform[e].translation

\* C16: the wrapper leaves every orientation, every z and every controller
\* field as the integrators left them, and leaves the position of every
\* entity without the ScreenWrap marker unchanged.
C16_WrapOnlyPosition ==
  JustPassed("apply_screen_wrap") =>
    /\ world.tank = before.tank
    /\ world.turret = before.turret
    /\ \A e \in DOMAIN world.transform :
         /\ world.transform[e].rotation = before.transform[e].rotation
         /\ world.transform[e].translation[3] = before.transform[e].translation[3]
         /\ e \notin ScreenWrap => world.transform[e] = before.transform[e]

\* C16 witness: the wrapper has moved the hull, which heads neither along +x
\* nor as spawned, while every intent is nonzero and the turret has turned.
C16_Witness ==
  /\ JustPassed("apply_screen_wrap") /\ ~paused /\ window # NoWindow
  /\ Hull(world).translation # Hull(before).translation
  /\ Hull(world).rotation \notin {0, SpawnRotation}
  /\ Gun(world).rotation \notin {0, SpawnRotation}
  /\ HullCtl(world).forward_intent # 0
  /\ HullCtl(world).rotation_intent # 0
  /\ GunCtl(world).rotation_intent # 0

\* C17 as stated: a positive rotation_intent turns hull and turret clockwise
\* and a negative one counter-clockwise: in a frame of half a second the
\* counter-clockwise angle about z goes down by a quarter turn under intent
\* +1 and up by a quarter turn under intent -1.
C17_AsStated ==
  /\ (JustPassed("apply_tank_movement") /\ ~paused /\ dt = 1) =>
       Hull(world).rotation =
         (Hull(before).rotation - 90 * HullCtl(world).rotation_intent) % 360
  /\ (JustPassed("apply_turret_movement") /\ ~paused /\ dt = 1) =>
       Gun(world).rotation =
         (Gun(before).rotation - 90 * GunCtl(world).rotation_intent) % 360

\* The stage a system belongs to: the recorders record, the integrators
\* integrate, the wrapper wraps.
StageOf(system) ==
  CASE system \in {"record_tank_input", "record_turret_input"} -> "record"
    [] system \in {"apply_tank_movement", "apply_turret_movement"} -> "integrate"
    [] system = "apply_screen_wrap" -> "wrap"

\* The stages that changed the entity's Transform in the current frame, in
\* order.
StagesWriting(e) == [i \in DOMAIN writes[e] |-> StageOf(writes[e][i])]

\* C18 as stated: in every frame at most one of the stages record, integrate
\* and wrap modifies the Transform of an entity.
C18_AsStated ==
  \A e \in Entities :
    Cardinality({StagesWriting(e)[i] : i \in DOMAIN StagesWriting(e)}) <= 1

\* C18 amended: in every frame the Transform of an entity is modified by at
\* most one stage, except that the Transform of an entity with the ScreenWrap
\* marker may be modified by the integrate stage and, after it, by the wrap
\* stage; the record stage modifies no Transform.
C18_WritersPerTick ==
  \A e \in Entities :
    StagesWriting(e) \in
      (IF e \in ScreenWrap
       THEN {<<>>, <<"integrate">>, <<"wrap">>, <<"integrate", "wrap">>}
       ELSE {<<>>, <<"integrate">>})

\* C18 witness: a frame in which the hull integrator and then the wrapper
\* changed the hull's Transform and the turret integrator the turret's.
C18_Witness ==
  /\ FrameDone
  /\ writes["Player"] = <<"apply_tank_movement", "apply_screen_wrap">>
  /\ writes["Turret"] = <<"apply_turret_movement">>

\* C19: for a fixed window the wrapper leaves a position that is already in
\* [-S/2, S/2) on both axes unchanged, and the wrapper applied to what the
\* wrapper returned changes nothing.
C19_WrapIdempotent ==
  (JustPassed("apply_screen_wrap") /\ ~paused /\ window # NoWindow) =>
    /\ InDomain(Hull(before).translation, window) => Hull(world) = Hull(before)
    /\ apply_screen_wrap(window, world.transform) = world.transform

\* C19 witness: the wrapper met the hull outside the domain on one axis and
\* inside it, away from 0, on the other: it moved the one coordinate and
\* kept the other.
C19_Witness ==
  /\ JustPassed("apply_screen_wrap") /\ ~paused /\ window # NoWindow
  /\ \E i, j \in {1, 2} :
       /\ i # j
       /\ Abs(Hull(before).translation[i]) > DomainSize(window, i)
       /\ Hull(world).translation[i] # Hull(before).translation[i]
       /\ Hull(before).translation[j] # 0
       /\ Hull(world).translation[j] = Hull(before).translation[j]

\* The hull began inside the domain, drove forward in the first frame and
\* backward in the second, with no rotation intent; delta and window are the
\* same in both frames.
RoundTripDone ==
  /\ FrameDone /\ frame = 2 /\ ~paused /\ window # NoWindow
  /\ InDomain(Hull(origin).translation, window)
  /\ HullCtl(start).forward_intent = 1
  /\ HullCtl(start).rotation_intent = 0
  /\ HullCtl(world).forward_intent = -1
  /\ HullCtl(world).rotation_intent = 0

\* C20: a marked hull that starts inside the domain, drives forward for one
\* frame and backward for the next, with the same delta and window and no
\* rotation intent, is back at the position and orientation it started
\* with, also when the first frame took it across an edge of the domain.
C20_RoundTrip ==
  RoundTripDone =>
    /\ Hull(world).translation = Hull(origin).translation
    /\ Hull(world).rotation = Hull(origin).rotation

\* C20 witness: the first frame took the hull across an edge (where it stood
\* after that frame is not where the drive alone would have put it), and
\* the second frame wrapped it back.
C20_Witness ==
  /\ RoundTripDone /\ dt > 0
  /\ LET distance == (HullCtl(world).max_speed * dt) \div 2
         heading == UnitAt(Hull(origin).rotation)
     IN  \E i \in {1, 2} :
           Hull(start).translation[i] #
             Hull(origin).translation[i] + heading[i] * distance
  /\ Hull(start).translation # Hull(origin).translation
  /\ Hull(world).translation # Hull(before).translation
  /\ Hull(world) = Hull(origin)

====
